---- MODULE Spec2Model ----
(***************************************************************************)
(* Kalah (Mancala) engine of crates/mancala and the MCTS agent of          *)
(* crates/bot.  A position is the record State {pits, stores, to_move};    *)
(* the only transition is child_after_move, which runs sow_from_pit on a   *)
(* copy.  Arrays are 0-based as in the source: pits[side][idx] with        *)
(* side = Player::idx() in 0..1 and idx in 0..PITS_PER_SIDE-1.             *)
(***************************************************************************)
EXTENDS Integers, Sequences, FiniteSets, TLC

VARIABLES state, hist, free, obs, pc, cfg, sim, root, sampled, report, lastsim,
          pv

playVars == <<state, hist, free, obs>>

searchVars == <<pc, cfg, sim, root, sampled, report, lastsim>>

vars == <<state, hist, free, obs, pc, cfg, sim, root, sampled, report, lastsim,
          pv>>

(* ------------------------------------------------------------------ *)
(* constants.rs                                                        *)
(* ------------------------------------------------------------------ *)
PITS_PER_SIDE == 6

STONES_PER_PIT == 4

(* Free (off-book) moves a play may make; see Move. *)
MaxFree == 3

(* u8 arithmetic: the pit and store counters are u8 and wrap at 2^8 in a *)
(* release build.                                                        *)
AddU8(a, b) == (a + b) % (2 ^ 8)

PitIdx == 0 .. (PITS_PER_SIDE - 1)

(* ------------------------------------------------------------------ *)
(* player.rs                                                           *)
(* ------------------------------------------------------------------ *)
Player == {"A", "B"}

Opponent(p) == IF p = "A" THEN "B" ELSE "A"

Idx(p) == IF p = "A" THEN 0 ELSE 1

(* ------------------------------------------------------------------ *)
(* state.rs                                                            *)
(* ------------------------------------------------------------------ *)
New ==
  [ pits    |-> [sd \in 0 .. 1 |-> [i \in PitIdx |-> STONES_PER_PIT]],
    stores  |-> [sd \in 0 .. 1 |-> 0],
    to_move |-> "A" ]

SideEmpty(s, sd) == \A i \in PitIdx : s.pits[sd][i] = 0

IsTerminal(s) == SideEmpty(s, 0) \/ SideEmpty(s, 1)

(* Slip: the range stops one short, pit PITS_PER_SIDE - 1 is never listed. *)
RECURSIVE AscendingFromSkipsLast(_, _, _)
AscendingFromSkipsLast(s, sd, i) ==
  IF i >= PITS_PER_SIDE - 1 THEN << >>
  ELSE IF s.pits[sd][i] > 0 THEN << i >> \o AscendingFromSkipsLast(s, sd, i + 1)
  ELSE AscendingFromSkipsLast(s, sd, i + 1)

RECURSIVE AscendingFrom(_, _, _)
AscendingFrom(s, sd, i) ==
  IF i >= PITS_PER_SIDE THEN << >>
  ELSE IF s.pits[sd][i] > 0 THEN << i >> \o AscendingFrom(s, sd, i + 1)
  ELSE AscendingFrom(s, sd, i + 1)

(* Slip: the pits of the other side are listed. *)
LegalMovesOtherSide(s) ==
  IF IsTerminal(s) THEN << >> ELSE AscendingFrom(s, Idx(Opponent(s.to_move)), 0)

(* legal_moves: the non-empty pits of the side to move, ascending. *)
LegalMoves(s) ==
  IF IsTerminal(s) THEN << >> ELSE AscendingFrom(s, Idx(s.to_move), 0)

(* Loc of sow_from_pit; a Store carries idx 0 to keep one record shape. *)
PitLoc(side, idx) == [kind |-> "Pit", side |-> side, idx |-> idx]

StoreLoc(side) == [kind |-> "Store", side |-> side, idx |-> 0]

NextLoc(loc) ==
  IF loc.kind = "Pit" /\ loc.idx + 1 < PITS_PER_SIDE
    THEN PitLoc(loc.side, loc.idx + 1)
  ELSE IF loc.kind = "Pit" THEN StoreLoc(loc.side)
  ELSE PitLoc(Opponent(loc.side), 0)

(* Slip: the opponent's store is not skipped. *)
AdvanceNoSkip(loc, mover) == NextLoc(loc)

(* One step of the sowing walk: next slot, skipping the opponent's store. *)
Advance(loc, mover) ==
  LET l1 == NextLoc(loc)
  IN  IF l1.kind = "Store" /\ l1.side = Opponent(mover) THEN NextLoc(l1) ELSE l1

(* Slip: `-= 1` for `+= 1` on a store, wrapping below zero. *)
DepositStoreDecrements(s, loc) ==
  IF loc.kind = "Pit"
    THEN [s EXCEPT !.pits[Idx(loc.side)][loc.idx] = AddU8(@, 1)]
    ELSE [s EXCEPT !.stores[Idx(loc.side)] = (@ + (2 ^ 8 - 1)) % (2 ^ 8)]

Deposit(s, loc) ==
  IF loc.kind = "Pit"
    THEN [s EXCEPT !.pits[Idx(loc.side)][loc.idx] = AddU8(@, 1)]
    ELSE [s EXCEPT !.stores[Idx(loc.side)] = AddU8(@, 1)]

RECURSIVE SowLoop(_, _, _, _, _)
SowLoop(s, mover, loc, stones, last) ==
  IF stones = 0 THEN [board |-> s, last |-> last]
  ELSE LET l2 == Advance(loc, mover)
       IN  SowLoop(Deposit(s, l2), mover, l2, stones - 1, l2)

(* Pick up pit_index and sow: the board after the while loop, and `last`. *)
Sowing(s, pit_index) ==
  LET mover == s.to_move
      start == PitLoc(mover, pit_index)
  IN  SowLoop([s EXCEPT !.pits[Idx(mover)][pit_index] = 0],
              mover, start, s.pits[Idx(mover)][pit_index], start)

(* Slip: the landed stone is zeroed but not banked (captured, not captured + 1). *)
CaptureLosesLanded(s, mover, last) ==
  LET mover_i == Idx(mover)
      opp_i   == Idx(Opponent(mover))
      opp_idx == PITS_PER_SIDE - 1 - last.idx
      captured == s.pits[opp_i][opp_idx]
  IN  IF last.kind = "Pit" /\ last.side = mover /\ s.pits[mover_i][last.idx] = 1
         /\ captured > 0
        THEN [s EXCEPT !.pits[mover_i][last.idx] = 0,
                       !.pits[opp_i][opp_idx] = 0,
                       !.stores[mover_i] = AddU8(@, captured)]
        ELSE s

(* Slip: the `captured > 0` test is missing. *)
CaptureOppositeEmpty(s, mover, last) ==
  LET mover_i == Idx(mover)
      opp_i   == Idx(Opponent(mover))
      opp_idx == PITS_PER_SIDE - 1 - last.idx
      captured == s.pits[opp_i][opp_idx]
  IN  IF last.kind = "Pit" /\ last.side = mover /\ s.pits[mover_i][last.idx] = 1
        THEN [s EXCEPT !.pits[mover_i][last.idx] = 0,
                       !.pits[opp_i][opp_idx] = 0,
                       !.stores[mover_i] = AddU8(@, AddU8(captured, 1))]
        ELSE s

(* Slip: `=` for `+=`, the capture overwrites the mover's store. *)
CaptureOverwritesStore(s, mover, last) ==
  LET mover_i == Idx(mover)
      opp_i   == Idx(Opponent(mover))
      opp_idx == PITS_PER_SIDE - 1 - last.idx
      captured == s.pits[opp_i][opp_idx]
  IN  IF last.kind = "Pit" /\ last.side = mover /\ s.pits[mover_i][last.idx] = 1
         /\ captured > 0
        THEN [s EXCEPT !.pits[mover_i][last.idx] = 0,
                       !.pits[opp_i][opp_idx] = 0,
                       !.stores[mover_i] = AddU8(captured, 1)]
        ELSE s

(* Capture step, on the board after sowing. *)
Capture(s, mover, last) ==
  LET mover_i == Idx(mover)
      opp_i   == Idx(Opponent(mover))
      opp_idx == PITS_PER_SIDE - 1 - last.idx
      captured == s.pits[opp_i][opp_idx]
  IN  IF last.kind = "Pit" /\ last.side = mover /\ s.pits[mover_i][last.idx] = 1
         /\ captured > 0
        THEN [s EXCEPT !.pits[mover_i][last.idx] = 0,
                       !.pits[opp_i][opp_idx] = 0,
                       !.stores[mover_i] = AddU8(@, AddU8(captured, 1))]
        ELSE s

(* Slip: the turn always passes. *)
TurnAlwaysFlips(s, mover, last) == [s EXCEPT !.to_move = Opponent(mover)]

(* Extra turn if the last stone went into the mover's store, else flip. *)
TurnAfter(s, mover, last) ==
  LET extra == last.kind = "Store" /\ last.side = mover
  IN  IF ~extra THEN [s EXCEPT !.to_move = Opponent(mover)] ELSE s

RECURSIVE SweepFrom(_, _)
SweepFrom(s, i) ==
  IF i >= PITS_PER_SIDE THEN s
  ELSE SweepFrom([s EXCEPT !.stores[0] = AddU8(@, s.pits[0][i]),
                           !.pits[0][i] = 0,
                           !.stores[1] = AddU8(@, s.pits[1][i]),
                           !.pits[1][i] = 0], i + 1)

(* Slip: `&&` for `||`, the sweep waits until both sides are empty. *)
SweepBothEmpty(s) ==
  IF SideEmpty(s, 0) /\ SideEmpty(s, 1) THEN SweepFrom(s, 0) ELSE s

RECURSIVE SweepCrossedFrom(_, _)
SweepCrossedFrom(s, i) ==
  IF i >= PITS_PER_SIDE THEN s
  ELSE SweepCrossedFrom([s EXCEPT !.stores[1] = AddU8(@, s.pits[0][i]),
                                  !.pits[0][i] = 0,
                                  !.stores[0] = AddU8(@, s.pits[1][i]),
                                  !.pits[1][i] = 0], i + 1)

(* Slip: the store indices are swapped, each side banks the other's pits. *)
SweepCrossed(s) ==
  IF SideEmpty(s, 0) \/ SideEmpty(s, 1) THEN SweepCrossedFrom(s, 0) ELSE s

(* End-of-game sweep if either side is empty. *)
Sweep(s) ==
  IF SideEmpty(s, 0) \/ SideEmpty(s, 1) THEN SweepFrom(s, 0) ELSE s

SowFromPit(s, pit_index) ==
  LET mover == s.to_move
      sw    == Sowing(s, pit_index)
      cap   == Capture(sw.board, mover, sw.last)
  IN  Sweep(TurnAfter(cap, mover, sw.last))

(* Option<State> *)
NoState == [some |-> FALSE, val |-> New]

SomeState(s) == [some |-> TRUE, val |-> s]

(* Slip: the empty-pit test is missing. *)
ChildAfterMoveEmptyPit(s, pit_index) ==
  IF IsTerminal(s) \/ pit_index >= PITS_PER_SIDE THEN NoState
  ELSE SomeState(SowFromPit(s, pit_index))

(* child_after_move *)
ChildAfterMove(s, pit_index) ==
  IF IsTerminal(s) \/ pit_index >= PITS_PER_SIDE THEN NoState
  ELSE IF s.pits[Idx(s.to_move)][pit_index] = 0 THEN NoState
  ELSE SomeState(SowFromPit(s, pit_index))

(* legal_actions: child_after_move(m).unwrap() for each legal move m, in *)
(* the order of legal_moves; ok is FALSE where an unwrap would panic.    *)
LegalActions(s) ==
  LET moves == LegalMoves(s)
  IN  [ ok  |-> \A k \in 1 .. Len(moves) : ChildAfterMove(s, moves[k]).some,
        out |-> [k \in 1 .. Len(moves) |-> ChildAfterMove(s, moves[k]).val] ]

(* Slip: the arms of the comparison are exchanged. *)
OutcomeArmsSwapped(s) ==
  IF ~IsTerminal(s) THEN [kind |-> "Ongoing", player |-> "-"]
  ELSE IF s.stores[0] > s.stores[1] THEN [kind |-> "Win", player |-> "B"]
  ELSE IF s.stores[0] < s.stores[1] THEN [kind |-> "Win", player |-> "A"]
  ELSE [kind |-> "Draw", player |-> "-"]

(* outcome(): Win(p) / Draw / Ongoing, one record shape. *)
Outcome(s) ==
  IF ~IsTerminal(s) THEN [kind |-> "Ongoing", player |-> "-"]
  ELSE IF s.stores[0] > s.stores[1] THEN [kind |-> "Win", player |-> "A"]
  ELSE IF s.stores[0] < s.stores[1] THEN [kind |-> "Win", player |-> "B"]
  ELSE [kind |-> "Draw", player |-> "-"]

(* score_for: the store difference as i32, seen from player. *)
ScoreFor(s, player) == s.stores[Idx(player)] - s.stores[Idx(Opponent(player))]

(* ------------------------------------------------------------------ *)
(* evaluator.rs: RandomEvaluator::new(PlayoutMaxLen)                   *)
(* ------------------------------------------------------------------ *)
(* playout_max_len of the evaluator under test (1024 by default). *)
PlayoutMaxLen == 2

(* ------------------------------------------------------------------ *)
(* f32.  Priors, value means and PUCT scores are f32 in the source.    *)
(* An f32 value is the record [m, e] standing for m * 2^e, with m = 0  *)
(* and e = 0, or F32_MIN_MANT <= |m| < F32_MAX_MANT (24 significant    *)
(* bits).  Every operation returns the exact result rounded to the     *)
(* nearest such value, ties to the even significand, as IEEE 754       *)
(* binary32 does; the values of a search stay far inside the exponent  *)
(* range, so e is not bounded.  Intermediate integers stay below 2^31. *)
(* ------------------------------------------------------------------ *)
F32_MIN_MANT == 2 ^ 23

F32_MAX_MANT == 2 ^ 24

Abs(x) == IF x < 0 THEN -x ELSE x

Sgn(x) == IF x < 0 THEN -1 ELSE 1

F32Zero == [m |-> 0, e |-> 0]

(* An exact m * 2^e with |m| < 2^24, brought to 24 significant bits. *)
RECURSIVE F32Normalize(_, _)
F32Normalize(m, e) ==
  IF m = 0 THEN F32Zero
  ELSE IF Abs(m) < F32_MIN_MANT THEN F32Normalize(2 * m, e - 1)
  ELSE [m |-> m, e |-> e]

(* Round to nearest, ties to even: m is the kept part, rem the part     *)
(* dropped and half the weight of half a unit of m.                     *)
RoundNearestEven(m, rem, half) ==
  IF rem > half \/ (rem = half /\ m % 2 = 1) THEN m + 1 ELSE m

(* The value sign * m * 2^e after rounding, which may have carried m to *)
(* 2^24.                                                                *)
F32Pack(sign, m, e) ==
  IF m = F32_MAX_MANT THEN [m |-> sign * F32_MIN_MANT, e |-> e + 1]
  ELSE [m |-> sign * m, e |-> e]

RoundPack(sign, m, rem, half, e) == F32Pack(sign, RoundNearestEven(m, rem, half), e)

(* 1 when bits were lost in r, the rest of an operation. *)
Sticky(r) == IF r # 0 THEN 1 ELSE 0

RECURSIVE ShiftFor(_, _)
ShiftFor(x, k) == IF x \div (2 ^ k) < F32_MAX_MANT THEN k ELSE ShiftFor(x, k + 1)

(* x, of more than 24 bits, rounded to the 24 bits above bit k. *)
RoundInt(sign, x, k) == RoundPack(sign, x \div (2 ^ k), x % (2 ^ k), 2 ^ (k - 1), k)

(* `n as f32` for an integer n *)
F32FromInt(n) ==
  IF Abs(n) < F32_MAX_MANT THEN F32Normalize(n, 0)
  ELSE RoundInt(Sgn(n), Abs(n), ShiftFor(Abs(n), 1))

F32One == F32FromInt(1)

F32Neg(a) == [a EXCEPT !.m = -@]

(* n more bits of the quotient of r by d, r < 2 * d: long division. *)
RECURSIVE DivBits(_, _, _, _)
DivBits(r, d, n, q) ==
  IF n = 0 THEN [q |-> q, r |-> r]
  ELSE IF r >= d THEN DivBits(2 * (r - d), d, n - 1, 2 * q + 1)
  ELSE DivBits(2 * r, d, n - 1, 2 * q)

(* The quotient q of 26 bits (25 when the first is 0) and the rest r,   *)
(* rounded to 24 bits.                                                  *)
DivRound(sign, q, r, e) ==
  IF q >= 2 ^ 25
    THEN RoundPack(sign, q \div 4, (q % 4) * 2 + Sticky(r), 4, e - 23)
    ELSE RoundPack(sign, q \div 2, (q % 2) * 2 + Sticky(r), 2, e - 24)

DivQuotient(sign, qr, e) == DivRound(sign, qr.q, qr.r, e)

(* a / b, b not zero *)
F32Div(a, b) ==
  IF a.m = 0 THEN F32Zero
  ELSE DivQuotient(Sgn(a.m) * Sgn(b.m), DivBits(Abs(a.m), Abs(b.m), 26, 0), a.e - b.e)

(* The 48-bit product high * 2^24 + low rounded to 24 bits. *)
MulRound(sign, high, low, e) ==
  IF high >= F32_MIN_MANT
    THEN RoundPack(sign, high, low, F32_MIN_MANT, e + 24)
    ELSE RoundPack(sign, high * 2 + low \div F32_MIN_MANT, low % F32_MIN_MANT,
                   2 ^ 22, e + 23)

(* The product from its parts: hh * 2^24 + mid * 2^12 + ll. *)
MulCarry(sign, hh, low0, e) ==
  MulRound(sign, hh + low0 \div F32_MAX_MANT, low0 % F32_MAX_MANT, e)

MulParts(sign, hh, mid, ll, e) ==
  MulCarry(sign, hh + mid \div 4096, ll + (mid % 4096) * 4096, e)

(* The product of two significands given in 12-bit limbs. *)
MulLimbs(sign, ah, al, bh, bl, e) ==
  MulParts(sign, ah * bh, ah * bl + al * bh, al * bl, e)

(* a * b *)
F32Mul(a, b) ==
  IF a.m = 0 \/ b.m = 0 THEN F32Zero
  ELSE MulLimbs(Sgn(a.m) * Sgn(b.m),
                Abs(a.m) \div 4096, Abs(a.m) % 4096,
                Abs(b.m) \div 4096, Abs(b.m) % 4096, a.e + b.e)

(* x shifted right by d bits, the bits lost kept as a sticky last bit. *)
ShiftRightSticky(x, d) ==
  IF x % (2 ^ d) # 0 THEN (x \div (2 ^ d)) - ((x \div (2 ^ d)) % 2) + 1
  ELSE x \div (2 ^ d)

(* M * 2^e with M < 2^27 exact up to its sticky last bit, brought to 27 *)
(* bits.                                                                *)
RECURSIVE NormalizeSum(_, _)
NormalizeSum(M, e) ==
  IF M < 2 ^ 26 THEN NormalizeSum(2 * M, e - 1) ELSE [M |-> M, e |-> e]

(* The sum in 27 bits rounded to 24: three bits are dropped. *)
SumRound(sign, n) == RoundPack(sign, n.M \div 8, n.M % 8, 4, n.e + 3)

(* The sum S * 2^e, S with three extra bits (guard, round, sticky). *)
SumPack(S, e) ==
  IF S = 0 THEN F32Zero
  ELSE IF Abs(S) >= 2 ^ 27
    THEN SumRound(Sgn(S), [M |-> ShiftRightSticky(Abs(S), 1), e |-> e + 1])
    ELSE SumRound(Sgn(S), NormalizeSum(Abs(S), e))

(* a + b for a.e >= b.e, neither zero *)
F32AddOrdered(a, b) ==
  IF a.e - b.e > 26 THEN a
  ELSE SumPack(a.m * 8 + Sgn(b.m) * ShiftRightSticky(Abs(b.m) * 8, a.e - b.e),
               a.e - 3)

(* a + b *)
F32Add(a, b) ==
  IF a.m = 0 THEN b
  ELSE IF b.m = 0 THEN a
  ELSE F32AddOrdered(IF a.e >= b.e THEN a ELSE b, IF a.e >= b.e THEN b ELSE a)

(* The square root of m * 4^13 bit by bit: k counts the pairs of bits  *)
(* of m still to bring down (13 pairs of m, then 13 pairs of zeros), r *)
(* is the root so far and rem the remainder.                           *)
RECURSIVE SqrtBits(_, _, _, _)
SqrtBits(m, k, r, rem) ==
  IF k < -13 THEN [r |-> r, rem |-> rem]
  ELSE IF rem * 4 + (IF k >= 0 THEN (m \div (4 ^ k)) % 4 ELSE 0) >= 4 * r + 1
    THEN SqrtBits(m, k - 1, 2 * r + 1,
                  rem * 4 + (IF k >= 0 THEN (m \div (4 ^ k)) % 4 ELSE 0) - (4 * r + 1))
    ELSE SqrtBits(m, k - 1, 2 * r,
                  rem * 4 + (IF k >= 0 THEN (m \div (4 ^ k)) % 4 ELSE 0))

(* The root r of 26 bits (25 when the first is 0) and the remainder,   *)
(* rounded to 24 bits.                                                  *)
SqrtRound(r, rem, e) ==
  IF r >= 2 ^ 25
    THEN RoundPack(1, r \div 4, (r % 4) * 2 + Sticky(rem), 4, e + 2)
    ELSE RoundPack(1, r \div 2, (r % 2) * 2 + Sticky(rem), 2, e + 1)

SqrtRoot(rr, e) == SqrtRound(rr.r, rr.rem, e)

(* f32::sqrt, a > 0 or zero *)
F32Sqrt(a) ==
  IF a.m = 0 THEN F32Zero
  ELSE IF a.e % 2 # 0
    THEN SqrtRoot(SqrtBits(2 * a.m, 12, 0, 0), (a.e - 1) \div 2 - 13)
    ELSE SqrtRoot(SqrtBits(a.m, 12, 0, 0), a.e \div 2 - 13)

(* a > b *)
F32Gt(a, b) ==
  IF a.m > 0 /\ b.m > 0 THEN a.e > b.e \/ (a.e = b.e /\ a.m > b.m)
  ELSE IF a.m < 0 /\ b.m < 0 THEN a.e < b.e \/ (a.e = b.e /\ a.m > b.m)
  ELSE a.m > 0 \/ (a.m = 0 /\ b.m < 0)

(* Slip: a position without legal moves gets one entry, for pit 0. *)
PolicyPriorsNeverEmpty(s) ==
  LET legal == LegalMoves(s)
  IN  IF legal = << >>
        THEN << [action |-> 0, prior |-> F32One] >>
        ELSE [k \in 1 .. Len(legal) |->
                [action |-> legal[k],
                 prior |-> F32Div(F32One, F32FromInt(Len(legal)))]]

(* The uniform policy over the legal moves. *)
PolicyPriors(s) ==
  LET legal == LegalMoves(s)
      p     == F32Div(F32One, F32FromInt(Len(legal)))
  IN  [k \in 1 .. Len(legal) |-> [action |-> legal[k], prior |-> p]]

(* Slip: the rollout is scored for the side to move where it stopped. *)
RolloutValueForLeafSide(s, root_player) ==
  IF IsTerminal(s)
    THEN IF Outcome(s).kind = "Win" /\ Outcome(s).player = s.to_move THEN 1
         ELSE IF Outcome(s).kind = "Win" THEN -1
         ELSE 0
    ELSE 0

(* The score of the position s a rollout stopped at. *)
RolloutValue(s, root_player) ==
  IF IsTerminal(s)
    THEN IF Outcome(s).kind = "Win" /\ Outcome(s).player = root_player THEN 1
         ELSE IF Outcome(s).kind = "Win" THEN -1
         ELSE 0
    ELSE 0

(* The values a rollout from s can end with when n more iterations of    *)
(* its loop are left: it stops on a terminal position, else plays one of *)
(* the legal moves, chosen at random.                                    *)
RECURSIVE Rollout(_, _, _)
Rollout(s, n, root_player) ==
  LET moves == LegalMoves(s)
  IN  IF n = 0 \/ IsTerminal(s) \/ moves = << >>
        THEN {RolloutValue(s, root_player)}
        ELSE UNION { Rollout(ChildAfterMove(s, moves[k]).val, n - 1, root_player) :
                       k \in 1 .. Len(moves) }

(* The values policy_value(state) can return, one per rollout. *)
PolicyValues(s) == Rollout(s, PlayoutMaxLen, s.to_move)

(* ------------------------------------------------------------------ *)
(* node.rs.  children and unexpanded are Vecs: sequences here, so the  *)
(* source's index i is i + 1.  value_sum is an f32 that only ever      *)
(* holds whole numbers (rounded sums of -1, 0 and 1): the field is the *)
(* whole number it holds.                                              *)
(* ------------------------------------------------------------------ *)
(* The f32 sum of the priors from entry k on, added to acc in order. *)
RECURSIVE PriorSum(_, _, _)
PriorSum(unexpanded, k, acc) ==
  IF k > Len(unexpanded) THEN acc
  ELSE PriorSum(unexpanded, k + 1, F32Add(acc, unexpanded[k].prior))

NormalizePriors(unexpanded) ==
  LET s == PriorSum(unexpanded, 1, F32Zero)
      u == F32Div(F32One, F32FromInt(Len(unexpanded)))
  IN  IF s.m > 0
        THEN [k \in 1 .. Len(unexpanded) |->
                [unexpanded[k] EXCEPT !.prior = F32Div(@, s)]]
      ELSE IF unexpanded # << >>
        THEN [k \in 1 .. Len(unexpanded) |-> [unexpanded[k] EXCEPT !.prior = u]]
      ELSE unexpanded

NewRoot(s, priors) ==
  [ state |-> s, prior |-> F32One, visits |-> 0, value_sum |-> 0,
    children |-> << >>, unexpanded |-> NormalizePriors(priors),
    to_move |-> s.to_move ]

(* The whole number an f32 value holds. *)
F32ToInt(a) == IF a.e >= 0 THEN a.m * (2 ^ a.e) ELSE a.m \div (2 ^ (-a.e))

(* value_sum += v: the f32 sum of two f32 values holding whole numbers. *)
AddValue(value_sum, v) == F32ToInt(F32Add(F32FromInt(value_sum), F32FromInt(v)))

ValueMean(n) ==
  IF n.visits = 0 THEN F32Zero
  ELSE F32Div(F32FromInt(n.value_sum), F32FromInt(n.visits))

(* c_puct of SearchConfig::default(): 1.4 as f32, 11744051 * 2^-23. *)
C_PUCT == [m |-> 11744051, e |-> -23]

QParent(parent, child) ==
  IF parent.to_move = child.to_move THEN ValueMean(child)
  ELSE F32Neg(ValueMean(child))

(* PUCT score: Q + c_puct * P * sqrt(N) / (1 + n), each operation in f32 *)
(* and in the order of the source.                                       *)
Ucb(parent, child) ==
  LET n        == F32FromInt(child.visits)
      n_parent == F32FromInt(IF parent.visits > 1 THEN parent.visits ELSE 1)
  IN  F32Add(QParent(parent, child),
             F32Mul(F32Mul(C_PUCT, child.prior),
                    F32Div(F32Sqrt(n_parent), F32Add(F32One, n))))

(* s > best_score in best_child, for the scores of two children. *)
UcbGreater(parent, a, b) == F32Gt(Ucb(parent, a), Ucb(parent, b))

(* The loop of best_child from child i on; best is the child whose score *)
(* is best_score.  The first child always replaces NEG_INFINITY.         *)
RECURSIVE BestFrom(_, _, _)
BestFrom(n, i, best) ==
  IF i > Len(n.children) THEN best
  ELSE IF UcbGreater(n, n.children[i], n.children[best])
    THEN BestFrom(n, i + 1, i)
    ELSE BestFrom(n, i + 1, best)

(* best_child: the first child with the strictly highest PUCT score. *)
BestChild(n) == BestFrom(n, 2, 1)

(* Slip: `pop()` for `swap_remove(idx)`, the last entry is removed. *)
SwapRemovePops(v, idx) == SubSeq(v, 1, Len(v) - 1)

(* Vec::swap_remove *)
SwapRemove(v, idx) ==
  [k \in 1 .. (Len(v) - 1) |-> IF k = idx THEN v[Len(v)] ELSE v[k]]

(* expand: the entry sampled is unexpanded[pick]; every entry has a     *)
(* positive weight (floored at 1e-6), so every pick in range can occur. *)
Expand(n, pick) ==
  IF IsTerminal(n.state) \/ n.unexpanded = << >>
    THEN [some |-> FALSE, node |-> n, index |-> 0, action |-> PITS_PER_SIDE]
    ELSE LET entry == n.unexpanded[pick]
             child_state == ChildAfterMove(n.state, entry.action).val
             child == [ state |-> child_state, prior |-> entry.prior,
                        visits |-> 0, value_sum |-> 0, children |-> << >>,
                        unexpanded |-> NormalizePriors(PolicyPriors(child_state)),
                        to_move |-> child_state.to_move ]
         IN  [ some |-> TRUE,
               node |-> [n EXCEPT !.unexpanded = SwapRemove(@, pick),
                                  !.children = Append(@, child)],
               index |-> Len(n.children) + 1,
               action |-> entry.action ]

(* ------------------------------------------------------------------ *)
(* mcts.rs                                                             *)
(* ------------------------------------------------------------------ *)
MaxSims == 3

(* Slip: the terminal arm is missing, every leaf goes to the evaluator. *)
EvaluateLeafAsksEvaluator(n) == PolicyValues(n.state)

(* evaluate_leaf: exact on a terminal node, else the evaluator's value. *)
EvaluateLeaf(n) ==
  IF IsTerminal(n.state)
    THEN IF Outcome(n.state).kind = "Win" /\ Outcome(n.state).player = n.to_move
           THEN {-1}
         ELSE IF Outcome(n.state).kind = "Win" THEN {1}
         ELSE {0}
    ELSE PolicyValues(n.state)

(* Slip: the `unexpanded.is_empty()` test is missing. *)
RECURSIVE SelectPathThroughFrontier(_)
SelectPathThroughFrontier(n) ==
  IF IsTerminal(n.state) \/ n.children = << >> THEN << >>
  ELSE LET i == BestChild(n) IN << i >> \o SelectPathThroughFrontier(n.children[i])

(* Selection: the child indices followed from n. *)
RECURSIVE SelectPath(_)
SelectPath(n) ==
  IF IsTerminal(n.state) \/ n.unexpanded # << >> \/ n.children = << >> THEN << >>
  ELSE LET i == BestChild(n) IN << i >> \o SelectPath(n.children[i])

RECURSIVE NodeAt(_, _)
NodeAt(n, path) ==
  IF path = << >> THEN n ELSE NodeAt(n.children[Head(path)], Tail(path))

RECURSIVE ReplaceAt(_, _, _)
ReplaceAt(n, path, m) ==
  IF path = << >> THEN m
  ELSE [n EXCEPT !.children[Head(path)] = ReplaceAt(@, Tail(path), m)]

(* to_move of the nodes on a path, root first. *)
RECURSIVE ToMoves(_, _)
ToMoves(n, path) ==
  IF path = << >> THEN << n.to_move >>
  ELSE << n.to_move >> \o ToMoves(n.children[Head(path)], Tail(path))

(* Slip: the sign flips on every step up, whoever is to move. *)
RECURSIVE ValueAtAlwaysFlips(_, _, _)
ValueAtAlwaysFlips(tm, v, i) ==
  IF i >= Len(tm) THEN v ELSE -ValueAtAlwaysFlips(tm, v, i + 1)

(* The value added to the i-th node of the path when the leaf gets v:   *)
(* the sign flips where parent and child differ in to_move.             *)
RECURSIVE ValueAt(_, _, _)
ValueAt(tm, v, i) ==
  IF i >= Len(tm) THEN v
  ELSE IF tm[i] # tm[i + 1] THEN -ValueAt(tm, v, i + 1) ELSE ValueAt(tm, v, i + 1)

RECURSIVE Backprop(_, _, _, _, _)
Backprop(n, path, tm, v, i) ==
  LET m == [n EXCEPT !.visits = @ + 1,
                     !.value_sum = AddValue(@, ValueAt(tm, v, i))]
  IN  IF path = << >> THEN m
      ELSE [m EXCEPT !.children[Head(path)] =
                       Backprop(@, Tail(path), tm, v, i + 1)]

(* One simulation from tree r: the node selection stops at, the tree    *)
(* after the expansion step, and the path to the leaf.                  *)
Selected(r) == NodeAt(r, SelectPath(r))

Expands(r) == ~IsTerminal(Selected(r).state) /\ Selected(r).unexpanded # << >>

Expanded(r, pick) ==
  IF Expands(r) /\ Expand(Selected(r), pick).some
    THEN ReplaceAt(r, SelectPath(r), Expand(Selected(r), pick).node)
    ELSE r

(* Slip: the new child is left out of the path that is backed up. *)
LeafPathStopsAtParent(r, pick) == SelectPath(r)

LeafPath(r, pick) ==
  IF Expands(r) /\ Expand(Selected(r), pick).some
    THEN Append(SelectPath(r), Expand(Selected(r), pick).index)
    ELSE SelectPath(r)

(* Slip: a terminal root returns before backpropagation. *)
SimulateTreeTerminalUnvisited(r, pick, v) ==
  LET e == Expanded(r, pick)
      p == LeafPath(r, pick)
  IN  IF IsTerminal(r.state) THEN r ELSE Backprop(e, p, ToMoves(e, p), v, 1)

SimulateTree(r, pick, v) ==
  LET e == Expanded(r, pick)
      p == LeafPath(r, pick)
  IN  Backprop(e, p, ToMoves(e, p), v, 1)

(* usize::MAX, the placeholder of mcts_search: the largest value of the  *)
(* integers at hand, which is 2^31 - 1 for TLC and 2^64 - 1 for usize.   *)
USIZE_MAX == 2 ^ 30 + (2 ^ 30 - 1)

NoAction == [some |-> FALSE, val |-> 0]

SomeAction(a) == [some |-> TRUE, val |-> a]

(* The first legal move of the root whose successor equals child_state. *)
RECURSIVE DeriveFrom(_, _, _)
DeriveFrom(root_state, child_state, k) ==
  IF k > Len(LegalMoves(root_state)) THEN USIZE_MAX
  ELSE LET a == LegalMoves(root_state)[k]
       IN  IF ChildAfterMove(root_state, a).some
              /\ ChildAfterMove(root_state, a).val = child_state
             THEN a
             ELSE DeriveFrom(root_state, child_state, k + 1)

(* Slip: the moves are replayed against the child instead of the root. *)
DeriveActionOnChild(root_state, child_state) == DeriveFrom(child_state, child_state, 1)

DeriveAction(root_state, child_state) == DeriveFrom(root_state, child_state, 1)

(* The loop over root.children of mcts_search. *)
RECURSIVE ReportFrom(_, _, _, _, _, _)
ReportFrom(root_state, r, k, best_action, best_visits, stats) ==
  IF k > Len(r.children)
    THEN [chosen_action |-> best_action, root_visits |-> r.visits,
          child_visits |-> stats]
    ELSE LET ch == r.children[k]
             a  == DeriveAction(root_state, ch.state)
             st == Append(stats, [action |-> a, visits |-> ch.visits])
         IN  IF ch.visits > best_visits
               THEN ReportFrom(root_state, r, k + 1, SomeAction(a), ch.visits, st)
               ELSE ReportFrom(root_state, r, k + 1, best_action, best_visits, st)

(* Slip: `>=` for `>`, the last of the most-visited children wins. *)
RECURSIVE ReportLastFrom(_, _, _, _, _, _)
ReportLastFrom(root_state, r, k, best_action, best_visits, stats) ==
  IF k > Len(r.children)
    THEN [chosen_action |-> best_action, root_visits |-> r.visits,
          child_visits |-> stats]
    ELSE LET ch == r.children[k]
             a  == DeriveAction(root_state, ch.state)
             st == Append(stats, [action |-> a, visits |-> ch.visits])
         IN  IF ch.visits >= best_visits
               THEN ReportLastFrom(root_state, r, k + 1, SomeAction(a), ch.visits, st)
               ELSE ReportLastFrom(root_state, r, k + 1, best_action, best_visits, st)

ReportLastMax(root_state, r) == ReportLastFrom(root_state, r, 1, NoAction, 0, << >>)

(* mcts_search, after the simulations *)
Report(root_state, r) == ReportFrom(root_state, r, 1, NoAction, 0, << >>)

NoReport == [chosen_action |-> NoAction, root_visits |-> 0, child_visits |-> << >>]

(* ------------------------------------------------------------------ *)
(* Plays.  A play starts at State::new() and applies child_after_move. *)
(* The reachable positions are far too many to enumerate, so a play    *)
(* follows one of the opening lines below and may leave it for at most *)
(* MaxFree moves of its own choice.                                    *)
(* ------------------------------------------------------------------ *)
(* ends in a capture that empties the mover's side: terminal sweep *)
LineTerm == <<5, 1, 2, 0, 3, 0, 4, 0, 5>>

(* ends with a 13-stone pit played: a full lap back into the start pit *)
LineLap == <<5, 5, 0, 1, 2, 0, 3, 0, 5, 0, 4, 1>>

(* ends where two legal moves capture the opponent's last stones *)
LineDup == <<5, 2, 1, 1, 3, 0, 1, 2, 4, 2, 5>>

(* ends in a draw, 24 stones in each store *)
LineDraw == <<0, 1, 1, 2, 2, 0, 0, 3, 4, 4, 2, 5>>

(* LineDup continued to a position with two legal moves, one of which    *)
(* takes an extra turn two moves before the end of the game              *)
LineTurn == <<5, 2, 1, 1, 3, 0, 1, 2, 4, 2, 5, 3, 3, 3>>

Openings == {LineTerm, LineLap, LineDup, LineDraw, LineTurn}

IsPrefix(p, q) == Len(p) <= Len(q) /\ \A k \in 1 .. Len(p) : p[k] = q[k]

OnBook(h) == \E line \in Openings : IsPrefix(h, line)

(* What the last child_after_move call saw: argument, position before, *)
(* board after the sowing loop, `last`, board after the capture step.  *)
ObsInit ==
  [ pit |-> PITS_PER_SIDE, some |-> FALSE, before |-> New,
    sown |-> New, last |-> PitLoc("A", 0), captured |-> New ]

Observe(s, i) ==
  IF ~ChildAfterMove(s, i).some
    THEN [ pit |-> i, some |-> FALSE, before |-> s,
           sown |-> s, last |-> PitLoc(s.to_move, 0), captured |-> s ]
    ELSE LET sw == Sowing(s, i)
         IN  [ pit |-> i, some |-> TRUE, before |-> s,
               sown |-> sw.board, last |-> sw.last,
               captured |-> Capture(sw.board, s.to_move, sw.last) ]

(* What the last simulate call did: the tree it was given, the child    *)
(* indices of its path from the root to the leaf, the leaf's value.     *)
(* No call of policy_value yet. *)
NoCall == [ran |-> FALSE, state |-> New, prior |-> << >>, value |-> 0]

NoSim(r) == [ran |-> FALSE, before |-> r, path |-> << >>, value |-> 0]

(* The play starts at State::new(); no search has been called yet, so   *)
(* cfg, root and report hold placeholders until StartSearch.             *)
Init ==
  /\ state = New
  /\ hist = << >>
  /\ free = 0
  /\ obs = ObsInit
  /\ pc = "play"
  /\ cfg = [simulations |-> 0]
  /\ sim = 0
  /\ root = NewRoot(New, PolicyPriors(New))
  /\ sampled = << >>
  /\ report = NoReport
  /\ lastsim = NoSim(NewRoot(New, PolicyPriors(New)))
  /\ pv = NoCall

(* s = s.child_after_move(i), or the call returns None and s stays. *)
Move(i) ==
  LET r == ChildAfterMove(state, i)
      h == Append(hist, i)
  IN  /\ pc = "play"
      /\ UNCHANGED <<searchVars, pv>>
      /\ obs' = Observe(state, i)
      /\ IF r.some
           THEN /\ OnBook(h) \/ free < MaxFree
                /\ state' = r.val
                /\ hist' = h
                /\ free' = IF OnBook(h) THEN free ELSE free + 1
           ELSE UNCHANGED <<state, hist, free>>

Next == \E i \in 0 .. PITS_PER_SIDE : Move(i)

Spec == Init /\ [][Next]_vars

(* ------------------------------------------------------------------ *)
(* Searches.  The driver plays along an opening line and at some point *)
(* calls mcts_search(&state, cfg, &eval) with simulations in           *)
(* 0..MaxSims; the search runs simulate cfg.simulations times and      *)
(* builds its report.  `sampled` lists the actions the root's expand   *)
(* calls drew, in the order of root.children.                          *)
(* ------------------------------------------------------------------ *)
SearchLines == {LineDup, LineTerm, LineDraw, LineTurn}

Play(i) ==
  LET r == ChildAfterMove(state, i)
      h == Append(hist, i)
  IN  /\ pc = "play"
      /\ r.some
      /\ \E line \in SearchLines : IsPrefix(h, line)
      /\ state' = r.val
      /\ hist' = h
      /\ obs' = Observe(state, i)
      /\ UNCHANGED <<free, pc, cfg, sim, root, sampled, report, lastsim, pv>>

StartSearch(n) ==
  /\ pc = "play"
  /\ pc' = "search"
  /\ cfg' = [simulations |-> n]
  /\ sim' = 0
  /\ root' = NewRoot(state, PolicyPriors(state))
  /\ sampled' = << >>
  /\ lastsim' = NoSim(NewRoot(state, PolicyPriors(state)))
  /\ UNCHANGED <<state, hist, free, obs, report, pv>>

(* simulate(&mut root, c_puct, eval): pick is the entry expand samples, *)
(* v the value evaluate_leaf returns.                                   *)
Simulate(pick) ==
  /\ pc = "search"
  /\ sim < cfg.simulations
  /\ IF Expands(root)
       THEN pick \in 1 .. Len(Selected(root).unexpanded)
       ELSE pick = 1
  /\ \E v \in EvaluateLeaf(NodeAt(Expanded(root, pick), LeafPath(root, pick))) :
       /\ root' = SimulateTree(root, pick, v)
       /\ lastsim' = [ran |-> TRUE, before |-> root,
                      path |-> LeafPath(root, pick), value |-> v]
  /\ sim' = sim + 1
  /\ sampled' = IF Expands(root) /\ SelectPath(root) = << >>
                  THEN Append(sampled, Expand(root, pick).action)
                  ELSE sampled
  /\ UNCHANGED <<state, hist, free, obs, pc, cfg, report, pv>>

Finish ==
  /\ pc = "search"
  /\ sim = cfg.simulations
  /\ report' = Report(state, root)
  /\ pc' = "done"
  /\ UNCHANGED <<state, hist, free, obs, cfg, sim, root, sampled, lastsim, pv>>

SearchNext ==
  \/ \E i \in PitIdx : Play(i)
  \/ \E n \in 0 .. MaxSims : StartSearch(n)
  \/ \E pick \in 1 .. PITS_PER_SIDE : Simulate(pick)
  \/ Finish

SearchSpec == Init /\ [][SearchNext]_vars

(* ------------------------------------------------------------------ *)
(* Calls of the evaluator: a game is played along an opening line with *)
(* at most MaxEvalFree moves off it, then policy_value is called once  *)
(* on the position reached; pv records the argument and the result.    *)
(* ------------------------------------------------------------------ *)
MaxEvalFree == 1

EvalPlay(i) ==
  LET r == ChildAfterMove(state, i)
      h == Append(hist, i)
  IN  /\ pc = "play"
      /\ ~pv.ran
      /\ r.some
      /\ OnBook(h) \/ free < MaxEvalFree
      /\ state' = r.val
      /\ hist' = h
      /\ free' = IF OnBook(h) THEN free ELSE free + 1
      /\ obs' = Observe(state, i)
      /\ UNCHANGED <<searchVars, pv>>

PolicyValue ==
  /\ pc = "play"
  /\ ~pv.ran
  /\ \E v \in PolicyValues(state) :
       pv' = [ran |-> TRUE, state |-> state, prior |-> PolicyPriors(state),
              value |-> v]
  /\ UNCHANGED <<playVars, searchVars>>

EvalNext ==
  \/ \E i \in PitIdx : EvalPlay(i)
  \/ PolicyValue

EvalSpec == Init /\ [][EvalNext]_vars

(* ------------------------------------------------------------------ *)
(* Helpers of the properties.  A sow is described independently of the *)
(* walk: seen from the mover the ring has RingLen slots, own pits      *)
(* 0..PITS_PER_SIDE-1, own store PITS_PER_SIDE, then the opponent's    *)
(* pits; stone j of n taken from pit p lies on slot (p + j) % RingLen. *)
(* ------------------------------------------------------------------ *)
RECURSIVE SumPitsFrom(_, _, _)
SumPitsFrom(s, sd, i) ==
  IF i >= PITS_PER_SIDE THEN 0 ELSE s.pits[sd][i] + SumPitsFrom(s, sd, i + 1)

SumPits(s, sd) == SumPitsFrom(s, sd, 0)

Total(s) == SumPits(s, 0) + SumPits(s, 1) + s.stores[0] + s.stores[1]

AllPitsZero(s) == \A sd \in 0 .. 1 : \A i \in PitIdx : s.pits[sd][i] = 0

RingLen == 2 * PITS_PER_SIDE + 1

RingCount(p, n, slot) ==
  Cardinality({j \in 1 .. n : (p + j) % RingLen = slot})

LandingSlot(p, n) == (p + n) % RingLen

Mover == obs.before.to_move

MoverI == Idx(Mover)

OppI == Idx(Opponent(Mover))

Picked == obs.before.pits[MoverI][obs.pit]

Landing == LandingSlot(obs.pit, Picked)

LandsInOwnPit == Landing < PITS_PER_SIDE

OppositeIdx == PITS_PER_SIDE - 1 - Landing

(* The capture condition of the rules, on the board after sowing. *)
CaptureCase ==
  /\ LandsInOwnPit
  /\ obs.sown.pits[MoverI][Landing] = 1
  /\ obs.sown.pits[OppI][OppositeIdx] > 0

(* C1: in every position reached from State::new() by successful          *)
(* child_after_move calls, all pits plus both stores hold                  *)
(* 2 * PITS_PER_SIDE * STONES_PER_PIT stones.                              *)
C1_TotalStones == Total(state) = 2 * PITS_PER_SIDE * STONES_PER_PIT

(* A move that captured and then triggered the sweep has been played. *)
C1_Witness ==
  /\ obs.some
  /\ obs.captured # obs.sown
  /\ IsTerminal(state)
  /\ Total(state) = 48

(* C2: a terminal successor has every pit of both sides at zero, so no     *)
(* reachable position has one side empty and stones left in the other's    *)
(* pits.                                                                   *)
C2_TerminalSwept == IsTerminal(state) => AllPitsZero(state)

(* A move emptied one side while the other still held stones: swept. *)
C2_Witness ==
  /\ obs.some
  /\ IsTerminal(state)
  /\ ~AllPitsZero(obs.captured)
  /\ AllPitsZero(state)

(* C3 as stated: no legal move changes the opponent's store, the moves     *)
(* that trigger the end-of-game sweep included.                            *)
C3_OpponentStoreUnchanged ==
  obs.some => state.stores[OppI] = obs.before.stores[OppI]

(* C3 as amended: a legal move changes the opponent's store only through   *)
(* the end-of-game sweep: it is unchanged when the successor is not        *)
(* terminal, and otherwise grows by exactly the stones left in the         *)
(* opponent's pits after sowing and capture.                               *)
C3_OpponentStoreOnlySwept ==
  obs.some =>
    state.stores[OppI] =
      obs.before.stores[OppI]
        + (IF IsTerminal(state) THEN SumPits(obs.captured, OppI) ELSE 0)

(* The mover emptied their own side and the sweep paid the opponent. *)
C3_Witness ==
  /\ obs.some
  /\ IsTerminal(state)
  /\ SumPits(obs.captured, OppI) > 0
  /\ state.stores[OppI] > obs.before.stores[OppI]

(* C4: child_after_move(i) is None on a terminal position, for             *)
(* i >= PITS_PER_SIDE and for an empty pit of the player to move, and Some *)
(* otherwise: Some exactly for the indices legal_moves lists.              *)
C4_LegalityGate ==
  /\ \A i \in 0 .. (PITS_PER_SIDE + 1) :
       LET legal == \E k \in 1 .. Len(LegalMoves(state)) : LegalMoves(state)[k] = i
           bad   == \/ IsTerminal(state)
                    \/ i >= PITS_PER_SIDE
                    \/ state.pits[Idx(state.to_move)][i] = 0
       IN  /\ ChildAfterMove(state, i).some <=> ~bad
           /\ ChildAfterMove(state, i).some <=> legal
  /\ ~obs.some => state = obs.before

(* A call on a terminal position, with an index in range, returned None. *)
C4_Witness ==
  /\ ~obs.some
  /\ obs.pit < PITS_PER_SIDE
  /\ IsTerminal(obs.before)
  /\ hist # << >>

(* C5: a move captures exactly when its last stone lands in an own pit     *)
(* that then holds one stone and the opposite pit holds k > 0: both pits   *)
(* are zero in the successor and the mover's store gains k + 1.  Otherwise *)
(* the capture step changes nothing, and the board after sowing is the     *)
(* successor's unless the sweep applies.                                   *)
C5_Capture ==
  obs.some =>
    LET k == obs.sown.pits[OppI][OppositeIdx]
    IN  IF CaptureCase
          THEN /\ obs.captured.pits[MoverI][Landing] = 0
               /\ obs.captured.pits[OppI][OppositeIdx] = 0
               /\ obs.captured.stores[MoverI] = obs.sown.stores[MoverI] + k + 1
               /\ obs.captured.stores[OppI] = obs.sown.stores[OppI]
               /\ \A sd \in 0 .. 1 : \A i \in PitIdx :
                    ~(sd = MoverI /\ i = Landing) /\ ~(sd = OppI /\ i = OppositeIdx)
                      => obs.captured.pits[sd][i] = obs.sown.pits[sd][i]
               /\ state.pits[MoverI][Landing] = 0
               /\ state.pits[OppI][OppositeIdx] = 0
               /\ state.stores[MoverI] >= obs.before.stores[MoverI] + k + 1
          ELSE /\ obs.captured = obs.sown
               /\ ~IsTerminal(state) =>
                    /\ state.pits = obs.sown.pits
                    /\ state.stores = obs.sown.stores

(* A 13-stone pit was sown a full lap back into itself and captured. *)
C5_Witness ==
  /\ obs.some
  /\ Picked = RingLen
  /\ Landing = obs.pit
  /\ CaptureCase
  /\ state.stores[MoverI] > obs.before.stores[MoverI] + 1

(* C6: after a legal move the mover is to move again if and only if the    *)
(* last stone went into the mover's own store, else the opponent is; from  *)
(* the initial position pit 2 keeps Player A to move and pit 0 hands the   *)
(* move to Player B.                                                       *)
C6_ExtraTurn ==
  /\ obs.some =>
       /\ state.to_move = Mover <=> Landing = PITS_PER_SIDE
       /\ state.to_move # Mover => state.to_move = Opponent(Mover)
  /\ ChildAfterMove(New, 2).some /\ ChildAfterMove(New, 2).val.to_move = "A"
  /\ ChildAfterMove(New, 0).some /\ ChildAfterMove(New, 0).val.to_move = "B"

(* Pit 2 was played from the initial position and A is to move again. *)
C6_Witness ==
  /\ obs.some
  /\ hist = <<2>>
  /\ state.to_move = "A"
  /\ state.stores[0] = 1

(* C7: sowing lays the picked-up stones one per slot in ring order (own    *)
(* pits, own store, opponent's pits, back to own pits) and never in the    *)
(* opponent's store, however far it wraps; the opponent's store is         *)
(* unchanged in every non-terminal successor.                              *)
C7_SowRing ==
  obs.some =>
    /\ \A i \in PitIdx :
         /\ obs.sown.pits[MoverI][i] =
              (IF i = obs.pit THEN 0 ELSE obs.before.pits[MoverI][i])
                + RingCount(obs.pit, Picked, i)
         /\ obs.sown.pits[OppI][i] =
              obs.before.pits[OppI][i]
                + RingCount(obs.pit, Picked, PITS_PER_SIDE + 1 + i)
    /\ obs.sown.stores[MoverI] =
         obs.before.stores[MoverI] + RingCount(obs.pit, Picked, PITS_PER_SIDE)
    /\ obs.sown.stores[OppI] = obs.before.stores[OppI]
    /\ ~IsTerminal(state) => state.stores[OppI] = obs.before.stores[OppI]

(* A sow went past the opponent's store back into the mover's pits,       *)
(* short of a full lap, and the game went on.                              *)
C7_Witness ==
  /\ obs.some
  /\ obs.pit + Picked >= RingLen
  /\ Picked < RingLen
  /\ ~IsTerminal(state)
  /\ obs.sown.pits[MoverI][0] = obs.before.pits[MoverI][0] + 1

(* C11: legal_moves lists, strictly ascending, exactly the non-empty pits  *)
(* of the player to move, and nothing on a terminal position;              *)
(* legal_actions has one successor per legal move in the same order,       *)
(* legal_actions()[k] = child_after_move(legal_moves()[k]).                *)
C11_LegalMovesAndActions ==
  LET m    == LegalMoves(state)
      acts == LegalActions(state)
      side == Idx(state.to_move)
  IN  /\ \A k \in 1 .. (Len(m) - 1) : m[k] < m[k + 1]
      /\ IsTerminal(state) => m = << >>
      /\ ~IsTerminal(state) =>
           {m[k] : k \in 1 .. Len(m)} = {i \in PitIdx : state.pits[side][i] > 0}
      /\ acts.ok
      /\ Len(acts.out) = Len(m)
      /\ \A k \in 1 .. Len(m) :
           /\ ChildAfterMove(state, m[k]).some
           /\ acts.out[k] = ChildAfterMove(state, m[k]).val
           /\ acts.out[k] = SowFromPit(state, m[k])

(* B is to move with an empty pit between two non-empty ones, and the two  *)
(* sides differ in which pits are empty.                                   *)
C11_Witness ==
  /\ obs.some
  /\ state.to_move = "B"
  /\ ~IsTerminal(state)
  /\ \E i, j, k \in PitIdx :
       /\ i < j /\ j < k
       /\ state.pits[1][i] > 0 /\ state.pits[1][j] = 0 /\ state.pits[1][k] > 0
       /\ state.pits[0][j] > 0
  /\ Len(LegalActions(state).out) = Cardinality({i \in PitIdx : state.pits[1][i] > 0})

WinnerIs(s, p) == Outcome(s).kind = "Win" /\ Outcome(s).player = p

(* C12: outcome() is Ongoing exactly on non-terminal positions; on a       *)
(* terminal position it is Win(p) for the player with the strictly larger  *)
(* store and Draw on equal stores, so Win(p) iff score_for(p) > 0; and     *)
(* score_for(A) = -score_for(B) on every position.                         *)
C12_Outcome ==
  /\ Outcome(state).kind = "Ongoing" <=> ~IsTerminal(state)
  /\ IsTerminal(state) =>
       /\ \A p \in Player :
            /\ WinnerIs(state, p) <=>
                 state.stores[Idx(p)] > state.stores[Idx(Opponent(p))]
            /\ WinnerIs(state, p) <=> ScoreFor(state, p) > 0
       /\ Outcome(state).kind = "Draw" <=> state.stores[0] = state.stores[1]
       /\ Outcome(state).kind = "Draw" <=> ScoreFor(state, "A") = 0
  /\ ScoreFor(state, "A") = -ScoreFor(state, "B")
  /\ ScoreFor(state, "A") = state.stores[0] - state.stores[1]

(* A play has ended with the second player ahead. *)
C12_Witness ==
  /\ obs.some
  /\ IsTerminal(state)
  /\ WinnerIs(state, "B")
  /\ ScoreFor(state, "B") > 0
  /\ ScoreFor(state, "A") < 0

(* A play has ended in a draw. *)
C12_DrawReached ==
  /\ IsTerminal(state)
  /\ Outcome(state).kind = "Draw"
  /\ state.stores[0] = STONES_PER_PIT * PITS_PER_SIDE

(* C13: along a play neither player's store decreases from one position   *)
(* to the next.                                                            *)
C13_StoresNeverDecrease ==
  [][\A sd \in 0 .. 1 : state'.stores[sd] >= state.stores[sd]]_vars

(* A move sowed into the mover's store, which already held stones, and     *)
(* then captured into it.                                                  *)
C13_Witness ==
  /\ obs.some
  /\ obs.before.stores[MoverI] > 0
  /\ obs.sown.stores[MoverI] > obs.before.stores[MoverI]
  /\ obs.captured.stores[MoverI] > obs.sown.stores[MoverI]
  /\ state.stores[OppI] >= obs.before.stores[OppI]

(* A variant of the play.  Stones only move forward on the ring and a     *)
(* stone leaves a side only past that side's store, so a move either      *)
(* banks a stone or shifts stones to higher pit indices of the same side. *)
TotalStones == 2 * PITS_PER_SIDE * STONES_PER_PIT

RECURSIVE PitWeightFrom(_, _, _)
PitWeightFrom(s, sd, i) ==
  IF i >= PITS_PER_SIDE THEN 0
  ELSE i * s.pits[sd][i] + PitWeightFrom(s, sd, i + 1)

PitWeight(s) == PitWeightFrom(s, 0, 0) + PitWeightFrom(s, 1, 0)

RankBase == (PITS_PER_SIDE - 1) * TotalStones + 1

Rank(s) == (s.stores[0] + s.stores[1]) * RankBase + PitWeight(s)

RankMax == TotalStones * RankBase

(* C15: every play terminates and revisits no position: each successful   *)
(* move strictly raises Rank, which is bounded by RankMax and reaches it  *)
(* exactly on the terminal positions, so a play has at most RankMax moves *)
(* and the positions along it are pairwise different.                     *)
C15_PlaysTerminate ==
  [][ /\ Rank(state) <= RankMax
      /\ Rank(state) = RankMax <=> IsTerminal(state)
      /\ hist' # hist => /\ Rank(state') > Rank(state)
                          /\ state' # state
                          /\ Rank(state') <= RankMax
      /\ \A i \in PitIdx :
           ChildAfterMove(state, i).some =>
             Rank(ChildAfterMove(state, i).val) > Rank(state) ]_vars

(* A move banked nothing, so both stores are as before, and the play      *)
(* still advanced: the stones moved up the mover's own side.              *)
C15_Witness ==
  /\ obs.some
  /\ state.stores = obs.before.stores
  /\ ~IsTerminal(state)
  /\ state # obs.before
  /\ Rank(state) > Rank(obs.before)
  /\ Len(hist) >= 2

(* C16: legal_moves() is empty if and only if is_terminal() is true: in   *)
(* every position reached that is not terminal the player to move has a   *)
(* legal move, also when that player has just moved (extra turn), and     *)
(* each listed move has a successor.                                      *)
C16_NeverStuck ==
  /\ LegalMoves(state) = << >> <=> IsTerminal(state)
  /\ ~IsTerminal(state) =>
       /\ \E i \in PitIdx : ChildAfterMove(state, i).some
       /\ SumPits(state, Idx(state.to_move)) > 0
       /\ ChildAfterMove(state, LegalMoves(state)[1]).some

(* After an extra turn the mover is to move again with only two non-empty *)
(* pits left, and the game goes on.                                       *)
C16_Witness ==
  /\ obs.some
  /\ state.to_move = Mover
  /\ ~IsTerminal(state)
  /\ Len(LegalMoves(state)) = 2
  /\ SumPits(state, OppI) > 0

(* The player to move has one non-empty pit, the last of the side. *)
C16_LastPitOnly ==
  /\ obs.some
  /\ ~IsTerminal(state)
  /\ LegalMoves(state) = << PITS_PER_SIDE - 1 >>

(* ------------------------------------------------------------------ *)
(* Helpers of the search properties.                                   *)
(* ------------------------------------------------------------------ *)
IsLegalAt(s, a) == \E k \in 1 .. Len(LegalMoves(s)) : LegalMoves(s)[k] = a

ChildIdx == 1 .. Len(root.children)

IsMostVisited(k) == \A j \in ChildIdx : root.children[j].visits <= root.children[k].visits

(* The first child, in creation order, with the highest visit count. *)
FirstMostVisited == CHOOSE k \in ChildIdx : IsMostVisited(k) /\ \A j \in 1 .. (k - 1) : ~IsMostVisited(j)

Chosen == report.chosen_action

(* C8 as stated: the chosen move is a legal move of the root whose child   *)
(* has the highest visit count, and among the children tied for it the     *)
(* move with the lowest pit index.                                         *)
C8_ChosenLowestPit ==
  (pc = "done" /\ Chosen.some) =>
    /\ IsLegalAt(state, Chosen.val)
    /\ \E k \in ChildIdx :
         /\ sampled[k] = Chosen.val
         /\ IsMostVisited(k)
         /\ \A j \in ChildIdx : IsMostVisited(j) => sampled[k] <= sampled[j]

(* C8 as amended: the chosen move is a legal move of the root that leads   *)
(* to the state of a child with the highest visit count, and among the     *)
(* children tied for it the child taken is the first in the order the      *)
(* children were created (root.children), whatever its pit index.          *)
C8_ChosenFirstCreated ==
  (pc = "done" /\ Chosen.some) =>
    /\ root.children # << >>
    /\ IsLegalAt(state, Chosen.val)
    /\ ChildAfterMove(state, Chosen.val).val = root.children[FirstMostVisited].state

(* Two children tie for the most visits and the one created first, which   *)
(* is chosen, has the higher pit index.                                    *)
C8_Witness ==
  /\ pc = "done"
  /\ Chosen.some
  /\ \E j \in ChildIdx :
       /\ j > FirstMostVisited
       /\ IsMostVisited(j)
       /\ sampled[j] < sampled[FirstMostVisited]
  /\ Chosen.val = sampled[FirstMostVisited]

(* C9: every (move, visits) entry of child_visits carries the move that    *)
(* was sampled to create that child, so the reported moves are pairwise    *)
(* distinct legal moves of the root and chosen_action is the move that     *)
(* produced the most-visited child, also when two legal moves of the root  *)
(* lead to equal successor states.                                         *)
C9_ReportedMovesAreSampled ==
  pc = "done" =>
    /\ Len(report.child_visits) = Len(root.children)
    /\ \A k \in ChildIdx :
         /\ report.child_visits[k].action = sampled[k]
         /\ report.child_visits[k].visits = root.children[k].visits
         /\ IsLegalAt(state, report.child_visits[k].action)
    /\ \A j, k \in ChildIdx :
         j # k => report.child_visits[j].action # report.child_visits[k].action
    /\ Chosen.some => Chosen.val = sampled[FirstMostVisited]

(* C10: chosen_action is None and child_visits empty when simulations is 0 *)
(* or the root is terminal; with a non-terminal root and simulations >= 1  *)
(* chosen_action is present and a legal move of the root, never usize::MAX.*)
C10_ChosenPresence ==
  pc = "done" =>
    /\ (cfg.simulations = 0 \/ IsTerminal(state)) =>
         ~Chosen.some /\ report.child_visits = << >>
    /\ (cfg.simulations >= 1 /\ ~IsTerminal(state)) =>
         /\ Chosen.some
         /\ Chosen.val # USIZE_MAX
         /\ IsLegalAt(state, Chosen.val)
         /\ report.child_visits # << >>

(* A search with simulations >= 1 on a terminal root has reported. *)
C10_Witness ==
  /\ pc = "done"
  /\ IsTerminal(state)
  /\ cfg.simulations >= 1
  /\ root.visits >= 1
  /\ ~Chosen.some
  /\ report.child_visits = << >>

(* C14: the reported root_visits equals cfg.simulations: each simulation   *)
(* adds exactly one visit to the root, terminal or not.                    *)
C14_RootVisits ==
  /\ pc \in {"search", "done"} => root.visits = sim
  /\ pc = "done" =>
       /\ sim = cfg.simulations
       /\ report.root_visits = cfg.simulations

(* A search of three or more simulations on a terminal root has reported. *)
C14_Witness ==
  /\ pc = "done"
  /\ IsTerminal(state)
  /\ cfg.simulations >= 3
  /\ report.root_visits = cfg.simulations
  /\ root.children = << >>

(* ------------------------------------------------------------------ *)
(* The last simulation, read off the tree before it (lastsim.before)   *)
(* and the tree after it (root).  Node k of the path, k = 0 for the    *)
(* root, is reached by the first k child indices of lastsim.path.      *)
(* ------------------------------------------------------------------ *)
PathLen == Len(lastsim.path)

PathPrefix(k) == SubSeq(lastsim.path, 1, k)

PathNode(k) == NodeAt(root, PathPrefix(k))

Leaf == PathNode(PathLen)

(* The leaf was created by this simulation's expansion step. *)
LeafIsNew ==
  /\ PathLen > 0
  /\ lastsim.path[PathLen] >
       Len(NodeAt(lastsim.before, PathPrefix(PathLen - 1)).children)

OldValueSum(k) ==
  IF k = PathLen /\ LeafIsNew THEN 0
  ELSE NodeAt(lastsim.before, PathPrefix(k)).value_sum

(* What the simulation added to the cumulative value of path node k. *)
Gain(k) == PathNode(k).value_sum - OldValueSum(k)

(* C17: in a simulation that ends at a terminal leaf won by W, each node   *)
(* of the path receives +1 if its side to move is W, -1 if it is W's       *)
(* opponent and 0 on a draw: the convention of the evaluator, which gives  *)
(* +1 when the side to move at the evaluated state wins.                   *)
C17_ValueInNodePerspective ==
  (lastsim.ran /\ IsTerminal(Leaf.state)) =>
    /\ \A k \in 0 .. PathLen :
         Gain(k) = (IF WinnerIs(Leaf.state, PathNode(k).to_move) THEN 1
                    ELSE IF WinnerIs(Leaf.state, Opponent(PathNode(k).to_move)) THEN -1
                    ELSE 0)
    /\ Gain(PathLen) = RolloutValue(Leaf.state, Leaf.to_move)

(* Two nodes began equal, before and after the simulation, apart from the *)
(* statistics of the path: one more visit on each path node, v or -v on   *)
(* its cumulative value by its side to move, at most one new child, which *)
(* is the leaf, and every node off the path as it was.                    *)
RECURSIVE BackedUp(_, _, _, _, _)
BackedUp(old, new, path, leaf_to_move, v) ==
  /\ new.visits = old.visits + 1
  /\ new.value_sum = old.value_sum + (IF old.to_move = leaf_to_move THEN v ELSE -v)
  /\ new.state = old.state
  /\ new.to_move = old.to_move
  /\ new.prior = old.prior
  /\ IF path = << >>
       THEN new.children = old.children /\ new.unexpanded = old.unexpanded
       ELSE LET h == Head(path)
            IN  IF h <= Len(old.children)
                  THEN /\ Len(new.children) = Len(old.children)
                       /\ new.unexpanded = old.unexpanded
                       /\ \A k \in 1 .. Len(old.children) :
                            k # h => new.children[k] = old.children[k]
                       /\ BackedUp(old.children[h], new.children[h], Tail(path),
                                   leaf_to_move, v)
                  ELSE /\ h = Len(old.children) + 1
                       /\ Tail(path) = << >>
                       /\ Len(new.children) = h
                       /\ Len(new.unexpanded) = Len(old.unexpanded) - 1
                       /\ \A k \in 1 .. Len(old.children) :
                            new.children[k] = old.children[k]
                       /\ new.children[h].visits = 1
                       /\ new.children[h].value_sum = v
                       /\ new.children[h].to_move = leaf_to_move
                       /\ new.children[h].children = << >>

(* C18: backpropagation adds one visit to every node of the path and adds  *)
(* the leaf value to its cumulative value once, negated exactly when the   *)
(* node's side to move differs from the leaf's; between consecutive path   *)
(* nodes the sign flips where the side to move changes and is kept across  *)
(* an extra-turn edge; nodes off the path are unchanged.                   *)
C18_Backpropagation ==
  lastsim.ran =>
    /\ BackedUp(lastsim.before, root, lastsim.path, Leaf.to_move, lastsim.value)
    /\ Gain(PathLen) = lastsim.value
    /\ \A k \in 0 .. (PathLen - 1) :
         Gain(k) = (IF PathNode(k).to_move = PathNode(k + 1).to_move
                      THEN Gain(k + 1) ELSE -Gain(k + 1))

(* A simulation went two levels down with a non-zero leaf value, over one  *)
(* edge that keeps the side to move and one that changes it.               *)
C18_Witness ==
  /\ lastsim.ran
  /\ PathLen >= 2
  /\ lastsim.value # 0
  /\ \E k \in 0 .. (PathLen - 1) : PathNode(k).to_move = PathNode(k + 1).to_move
  /\ \E k \in 0 .. (PathLen - 1) : PathNode(k).to_move # PathNode(k + 1).to_move

(* C19: the value of a terminal leaf is -1 if the side to move at the leaf *)
(* is the winner, +1 if it is the loser and 0 on a draw, and it is not     *)
(* the evaluator's value of that position.                                 *)
C19_TerminalLeafValue ==
  (lastsim.ran /\ IsTerminal(Leaf.state)) =>
    LET mine   == Leaf.state.stores[Idx(Leaf.to_move)]
        theirs == Leaf.state.stores[Idx(Opponent(Leaf.to_move))]
    IN  /\ lastsim.value = (IF mine > theirs THEN -1
                            ELSE IF mine < theirs THEN 1 ELSE 0)
        /\ Gain(PathLen) = lastsim.value
        /\ mine # theirs => lastsim.value \notin PolicyValues(Leaf.state)

(* Selection ended on a terminal child visited before, whose side to move *)
(* has won: the leaf value is -1.                                         *)
C19_Witness ==
  /\ lastsim.ran
  /\ PathLen >= 1
  /\ ~LeafIsNew
  /\ IsTerminal(Leaf.state)
  /\ WinnerIs(Leaf.state, Leaf.to_move)
  /\ lastsim.value = -1
  /\ Leaf.visits >= 2

(* The other two endings of a simulation on a terminal leaf: the side to  *)
(* move has lost, and a draw.                                             *)
C19_LoserToMove ==
  /\ lastsim.ran
  /\ PathLen >= 1
  /\ IsTerminal(Leaf.state)
  /\ WinnerIs(Leaf.state, Opponent(Leaf.to_move))
  /\ lastsim.value = 1

C19_DrawLeaf ==
  /\ lastsim.ran
  /\ PathLen >= 1
  /\ IsTerminal(Leaf.state)
  /\ Outcome(Leaf.state).kind = "Draw"
  /\ lastsim.value = 0

(* Every node with unexpanded entries has only children visited once and  *)
(* without children of their own.                                         *)
RECURSIVE FrontierOk(_)
FrontierOk(n) ==
  /\ n.unexpanded # << >> =>
       \A k \in 1 .. Len(n.children) :
         n.children[k].visits = 1 /\ n.children[k].children = << >>
  /\ \A k \in 1 .. Len(n.children) : FrontierOk(n.children[k])

(* C20: selection steps from a node to a child only when the node is not   *)
(* terminal and has no unexpanded entries; a node with unexpanded entries  *)
(* is expanded instead, and the new child ends the path.  So between       *)
(* simulations every child of a node with unexpanded entries has one visit *)
(* and no children.                                                        *)
C20_SelectionOrder ==
  /\ FrontierOk(root)
  /\ lastsim.ran =>
       \A k \in 0 .. (PathLen - 1) :
         LET n == NodeAt(lastsim.before, PathPrefix(k))
         IN  /\ ~IsTerminal(n.state)
             /\ IF lastsim.path[k + 1] <= Len(n.children)
                  THEN n.unexpanded = << >>
                  ELSE n.unexpanded # << >> /\ k + 1 = PathLen

(* The root is fully expanded and was descended through; one of its       *)
(* children still has unexpanded entries and a child of its own.          *)
C20_Witness ==
  /\ lastsim.ran
  /\ root.unexpanded = << >>
  /\ \E k \in 1 .. Len(root.children) :
       /\ root.children[k].unexpanded # << >>
       /\ root.children[k].children # << >>
       /\ root.children[k].visits >= 2
       /\ root.children[k].children[1].visits = 1

(* ------------------------------------------------------------------ *)
(* The moves of a node.  A node does not store the move that made a    *)
(* child, so the children are matched to moves by their states: the    *)
(* states of the children, counted with repetition, are the successors *)
(* of the legal moves that are not in the unexpanded set.              *)
(* ------------------------------------------------------------------ *)
LegalSet(s) ==
  IF IsTerminal(s) THEN {}
  ELSE {i \in PitIdx : s.pits[Idx(s.to_move)][i] > 0}

UnexpandedMoves(n) == {n.unexpanded[k].action : k \in 1 .. Len(n.unexpanded)}

ProducedMoves(n) == LegalSet(n.state) \ UnexpandedMoves(n)

MovesPartitioned(n) ==
  /\ \A j, k \in 1 .. Len(n.unexpanded) :
       j # k => n.unexpanded[j].action # n.unexpanded[k].action
  /\ UnexpandedMoves(n) \subseteq LegalSet(n.state)
  /\ Len(n.children) = Cardinality(ProducedMoves(n))
  /\ Len(n.unexpanded) + Len(n.children) = Len(LegalMoves(n.state))
  /\ \A m \in ProducedMoves(n) :
       LET succ == ChildAfterMove(n.state, m).val
       IN  Cardinality({k \in 1 .. Len(n.children) : n.children[k].state = succ})
             = Cardinality({m2 \in ProducedMoves(n) :
                              ChildAfterMove(n.state, m2).val = succ})
  /\ \A k \in 1 .. Len(n.children) :
       \E m \in ProducedMoves(n) :
         ChildAfterMove(n.state, m).val = n.children[k].state

RECURSIVE PartitionedBelow(_)
PartitionedBelow(n) ==
  /\ MovesPartitioned(n)
  /\ \A k \in 1 .. Len(n.children) : PartitionedBelow(n.children[k])

RECURSIVE NodeCount(_)
NodeCount(n) ==
  IF n.children = << >> THEN 1
  ELSE 1 + NodeCount(n.children[1])
         + NodeCount([n EXCEPT !.children = Tail(@)]) - 1

(* The parent of the leaf, before and after the last simulation. *)
LeafParentBefore == NodeAt(lastsim.before, PathPrefix(PathLen - 1))

LeafParentAfter == PathNode(PathLen - 1)

(* C21: in every node each legal move of its state is either in the        *)
(* unexpanded set or has produced one child, never both and never twice;   *)
(* a successful expand takes exactly one move out of the unexpanded set    *)
(* and appends a child with the successor state of that move, visits 0 and *)
(* value 0; a simulation adds at most one node.                            *)
C21_MovesPartition ==
  pc \in {"search", "done"} =>
    /\ PartitionedBelow(root)
    /\ Len(sampled) = Len(root.children)
    /\ \A k \in 1 .. Len(root.children) :
         /\ sampled[k] \in ProducedMoves(root)
         /\ ChildAfterMove(state, sampled[k]).val = root.children[k].state
         /\ \A j \in 1 .. Len(root.children) : j # k => sampled[j] # sampled[k]
    /\ Expands(root) =>
         \A pick \in 1 .. Len(Selected(root).unexpanded) :
           LET n == Selected(root)
               e == Expand(n, pick)
               c == e.node.children[e.index]
           IN  /\ e.some
               /\ e.index = Len(n.children) + 1
               /\ Len(e.node.children) = Len(n.children) + 1
               /\ \A k \in 1 .. Len(n.children) : e.node.children[k] = n.children[k]
               /\ UnexpandedMoves(e.node) = UnexpandedMoves(n) \ {e.action}
               /\ Len(e.node.unexpanded) = Len(n.unexpanded) - 1
               /\ e.action \in UnexpandedMoves(n)
               /\ c.state = ChildAfterMove(n.state, e.action).val
               /\ c.visits = 0 /\ c.value_sum = 0 /\ c.children = << >>
               /\ c.to_move = c.state.to_move
    /\ lastsim.ran =>
         /\ NodeCount(root) = NodeCount(lastsim.before) + (IF LeafIsNew THEN 1 ELSE 0)
         /\ LeafIsNew =>
              LET removed == UnexpandedMoves(LeafParentBefore)
                               \ UnexpandedMoves(LeafParentAfter)
              IN  /\ Cardinality(removed) = 1
                  /\ UnexpandedMoves(LeafParentAfter)
                       \subseteq UnexpandedMoves(LeafParentBefore)
                  /\ \A m \in removed :
                       Leaf.state = ChildAfterMove(LeafParentBefore.state, m).val
                  /\ Len(LeafParentAfter.children)
                       = Len(LeafParentBefore.children) + 1

(* A node below the root has both produced a child and kept unexpanded     *)
(* entries, after an expansion that did not take the last entry.           *)
C21_Witness ==
  /\ lastsim.ran
  /\ LeafIsNew
  /\ PathLen >= 2
  /\ LeafParentAfter.unexpanded # << >>
  /\ \E m \in UnexpandedMoves(LeafParentAfter) :
       \E m2 \in ProducedMoves(LeafParentAfter) : m < m2
  /\ NodeCount(root) = NodeCount(lastsim.before) + 1

(* ------------------------------------------------------------------ *)
(* Visit counts.                                                       *)
(* ------------------------------------------------------------------ *)
RECURSIVE SumVisitsFrom(_, _)
SumVisitsFrom(seq, k) ==
  IF k > Len(seq) THEN 0 ELSE seq[k].visits + SumVisitsFrom(seq, k + 1)

ChildVisits(n) == SumVisitsFrom(n.children, 1)

RECURSIVE VisitsBelow(_)
VisitsBelow(n) ==
  /\ n.visits >= 1
  /\ ~IsTerminal(n.state) => n.visits = 1 + ChildVisits(n)
  /\ \A k \in 1 .. Len(n.children) : VisitsBelow(n.children[k])

(* C22: between simulations a non-terminal root has as many visits as its  *)
(* children together, every other non-terminal node has one visit more     *)
(* than its children together, every node below the root has at least one  *)
(* visit, and the reported child_visits of a non-terminal root sum to      *)
(* root_visits.                                                            *)
C22_VisitsBalance ==
  /\ pc \in {"search", "done"} =>
       /\ ~IsTerminal(root.state) => root.visits = ChildVisits(root)
       /\ \A k \in 1 .. Len(root.children) : VisitsBelow(root.children[k])
  /\ (pc = "done" /\ ~IsTerminal(state)) =>
       /\ SumVisitsFrom(report.child_visits, 1) = report.root_visits
       /\ Len(report.child_visits) = Len(root.children)
       /\ \A k \in 1 .. Len(root.children) :
            report.child_visits[k].visits = root.children[k].visits

(* A finished search whose root has three visits and a non-terminal child  *)
(* with two visits, one of them passed on to a grandchild.                 *)
C22_Witness ==
  /\ pc = "done"
  /\ ~IsTerminal(state)
  /\ report.root_visits = 3
  /\ \E k \in 1 .. Len(root.children) :
       /\ ~IsTerminal(root.children[k].state)
       /\ root.children[k].visits = 2
       /\ Len(root.children[k].children) = 1
       /\ root.children[k].children[1].visits = 1

(* ------------------------------------------------------------------ *)
(* Terminal nodes.                                                     *)
(* ------------------------------------------------------------------ *)
TerminalNodeInert(n) ==
  IsTerminal(n.state) =>
    /\ n.unexpanded = << >>
    /\ n.children = << >>
    /\ \A pick \in 1 .. PITS_PER_SIDE :
         /\ ~Expand(n, pick).some
         /\ Expand(n, pick).node = n

RECURSIVE TerminalsInertBelow(_)
TerminalsInertBelow(n) ==
  /\ TerminalNodeInert(n)
  /\ \A k \in 1 .. Len(n.children) : TerminalsInertBelow(n.children[k])

(* C23: a node with a terminal state has no unexpanded entries and no      *)
(* children at every point of the search, expand on it returns None and    *)
(* leaves it as it is, and a simulation that ends on it only counts a      *)
(* visit and a value.                                                      *)
C23_TerminalNodesInert ==
  pc \in {"search", "done"} =>
    /\ TerminalsInertBelow(root)
    /\ IsTerminal(Selected(root).state) =>
         /\ ~Expands(root)
         /\ \A pick \in 1 .. PITS_PER_SIDE :
              /\ Expanded(root, pick) = root
              /\ LeafPath(root, pick) = SelectPath(root)
    /\ (lastsim.ran /\ IsTerminal(Leaf.state) /\ ~LeafIsNew) =>
         /\ NodeCount(root) = NodeCount(lastsim.before)
         /\ Leaf = [NodeAt(lastsim.before, lastsim.path) EXCEPT
                      !.visits = @ + 1, !.value_sum = @ + lastsim.value]

(* A simulation ended on a terminal node below the root that an earlier    *)
(* simulation created.                                                     *)
C23_Witness ==
  /\ lastsim.ran
  /\ PathLen >= 1
  /\ ~LeafIsNew
  /\ IsTerminal(Leaf.state)
  /\ Leaf.unexpanded = << >>
  /\ Leaf.children = << >>
  /\ Leaf.visits = 2
  /\ ~Expand(Leaf, 1).some

(* A search whose root is terminal: every simulation ends on the root. *)
C23_TerminalRoot ==
  /\ lastsim.ran
  /\ IsTerminal(root.state)
  /\ PathLen = 0
  /\ root.visits >= 2
  /\ root.children = << >>

(* ------------------------------------------------------------------ *)
(* The baseline evaluator.                                             *)
(* ------------------------------------------------------------------ *)
(* The ends of the playouts from s of at most n moves: the position    *)
(* reached and the number of moves played.                             *)
RECURSIVE PlayoutEnds(_, _, _)
PlayoutEnds(s, n, played) ==
  IF n = 0 \/ IsTerminal(s)
    THEN {[end |-> s, played |-> played]}
    ELSE UNION {PlayoutEnds(ChildAfterMove(s, m).val, n - 1, played + 1) :
                  m \in LegalSet(s)}

Sign(x) == IF x > 0 THEN 1 ELSE IF x < 0 THEN -1 ELSE 0

(* p is an f32 value within half a unit of its last place of 1 / n. *)
NearestTo(p, n) ==
  /\ p.m >= F32_MIN_MANT /\ p.m < F32_MAX_MANT
  /\ p.e < 0
  /\ 2 * Abs(p.m * n - 2 ^ (-p.e)) <= n

(* C24: policy_value(s) returns one prior entry per legal move of s, none  *)
(* exactly when s has no legal move, and a value in {-1, 0, +1}: +1 when   *)
(* the playout ends on a terminal position won by the side to move at s,   *)
(* -1 when the other side won it, 0 on a draw, and 0 when playout_max_len  *)
(* moves were played without reaching a terminal position.                 *)
C24_PolicyValue ==
  pv.ran =>
    LET s     == pv.state
        legal == LegalMoves(s)
    IN  /\ s = state
        /\ Len(pv.prior) = Cardinality(LegalSet(s))
        /\ {pv.prior[k].action : k \in 1 .. Len(pv.prior)} = LegalSet(s)
        /\ \A k \in 1 .. Len(pv.prior) :
             /\ pv.prior[k].action = legal[k]
             /\ NearestTo(pv.prior[k].prior, Cardinality(LegalSet(s)))
        /\ (pv.prior = << >>) <=> (LegalSet(s) = {})
        /\ pv.value \in {-1, 0, 1}
        /\ \A ends \in {PlayoutEnds(s, PlayoutMaxLen, 0)} :
             /\ \E e \in ends :
                  pv.value = IF IsTerminal(e.end)
                               THEN Sign(ScoreFor(e.end, s.to_move)) ELSE 0
             /\ \A e \in ends : ~IsTerminal(e.end) => e.played = PlayoutMaxLen
             /\ PolicyValues(s) =
                  {IF IsTerminal(e.end) THEN Sign(ScoreFor(e.end, s.to_move))
                                        ELSE 0 : e \in ends}

(* policy_value returned -1 on a position with several legal moves from    *)
(* which a playout ends won by the side to move where it stopped, who is   *)
(* the opponent of the side to move at the start.                          *)
C24_Witness ==
  /\ pv.ran
  /\ ~IsTerminal(pv.state)
  /\ Len(pv.prior) >= 2
  /\ pv.value = -1
  /\ \E e \in PlayoutEnds(pv.state, PlayoutMaxLen, 0) :
       /\ IsTerminal(e.end)
       /\ e.end.to_move # pv.state.to_move
       /\ WinnerIs(e.end, e.end.to_move)

(* policy_value returned +1 on a position that is not terminal. *)
C24_WonPlayout ==
  /\ pv.ran
  /\ ~IsTerminal(pv.state)
  /\ pv.value = 1

(* policy_value returned 0 after playout_max_len moves without reaching a  *)
(* terminal position, from a position where other playouts end decided.    *)
C24_CutPlayout ==
  /\ pv.ran
  /\ pv.value = 0
  /\ PolicyValues(pv.state) \in {{0, 1}, {-1, 0}, {-1, 0, 1}}
  /\ \A e \in PlayoutEnds(pv.state, PlayoutMaxLen, 0) :
       IsTerminal(e.end) => e.end.stores[0] # e.end.stores[1]

(* policy_value was called on a terminal position. *)
C24_TerminalCall ==
  /\ pv.ran
  /\ IsTerminal(pv.state)
  /\ pv.prior = << >>
  /\ pv.value # 0

(* ------------------------------------------------------------------ *)
(* Range of the counts.                                                *)
(* ------------------------------------------------------------------ *)
U8_MAX == 255

CountsInRange(s) ==
  /\ \A sd \in 0 .. 1 :
       /\ s.stores[sd] \in 0 .. TotalStones
       /\ \A i \in PitIdx : s.pits[sd][i] \in 0 .. TotalStones
  /\ Total(s) = TotalStones

(* C25: every pit and store count of a reachable position, and of the      *)
(* board after the sowing and after the capture of every move, lies in     *)
(* 0 .. 48, so the u8 additions of sowing, of captured + 1 and of the      *)
(* sweep are the exact sums and no count goes below zero.                  *)
C25_CountsInRange ==
  /\ TotalStones <= U8_MAX
  /\ CountsInRange(state)
  /\ CountsInRange(obs.before)
  /\ CountsInRange(obs.sown)
  /\ CountsInRange(obs.captured)
  /\ obs.some =>
       /\ \A sd \in 0 .. 1 :
            /\ obs.sown.stores[sd] \in {obs.before.stores[sd],
                                         obs.before.stores[sd] + 1}
            /\ \A i \in PitIdx :
                 (sd # MoverI \/ i # obs.pit) =>
                    /\ obs.sown.pits[sd][i] >= obs.before.pits[sd][i]
                    /\ obs.sown.pits[sd][i] <= obs.before.pits[sd][i] + Picked
       /\ CaptureCase =>
            /\ obs.sown.pits[OppI][OppositeIdx] + 1 <= U8_MAX
            /\ obs.captured.stores[MoverI] =
                 obs.sown.stores[MoverI] + obs.sown.pits[OppI][OppositeIdx] + 1
       /\ IsTerminal(obs.captured) =>
            \A sd \in 0 .. 1 :
              state.stores[sd] = obs.captured.stores[sd] + SumPits(obs.captured, sd)

(* A move whose sweep adds stones to a store that ends above 36, after a   *)
(* capture.                                                                *)
C25_Witness ==
  /\ obs.some
  /\ CaptureCase
  /\ IsTerminal(state)
  /\ \E sd \in 0 .. 1 :
       /\ SumPits(obs.captured, sd) > 0
       /\ state.stores[sd] > 36
       /\ state.stores[sd] = obs.captured.stores[sd] + SumPits(obs.captured, sd)

(* A pit holds more than twelve stones and is sown for a full lap. *)
C25_LargePit ==
  /\ obs.some
  /\ Picked > 12
  /\ CountsInRange(obs.sown)

====
